---- MODULE Spec2Model ----
(***************************************************************************)
(* Position / cost-basis accounting and rebalancing core of AlgoTester.    *)
(*                                                                         *)
(* Python floats are modelled as exact rationals <<num, den>> (den > 0,    *)
(* lowest terms), so that sums, products and quotients are computed as the *)
(* code computes them and an equality in a property is an equality of      *)
(* numbers.                                                                *)
(***************************************************************************)
EXTENDS Integers, Sequences, FiniteSets, TLC

(***************************************************************************)
(* Bounds of the model.                                                    *)
(***************************************************************************)
MaxDays == 3          \* simulated days (calls of next) per run
MaxQ == 2             \* calculator inputs range over halves in -MaxQ..MaxQ
MaxPeriod == 2        \* rebalance periods range over 1..MaxPeriod
MaxSeries == 3        \* longest portfolio-value series handed to the metrics
MaxValue == 3         \* portfolio values of such a series range over -1..MaxValue
StartCash == 7        \* cash the broker starts a run with

(***************************************************************************)
(* Exact arithmetic on floats.                                             *)
(***************************************************************************)
Abs(i) == IF i < 0 THEN -i ELSE i

RECURSIVE GCD(_, _)
GCD(a, b) == IF b = 0 THEN a ELSE GCD(b, a % b)

\* the number n/d, d # 0, in lowest terms with a positive denominator
R(n, d) ==
    LET g == GCD(Abs(n), Abs(d))
        s == IF d < 0 THEN -1 ELSE 1
    IN  <<(s * n) \div g, (s * d) \div g>>

I(n) == <<n, 1>>
Zero == I(0)
One == I(1)

\* sums over the least common denominator and products with the common
\* factors cancelled first keep the intermediate integers small
RAdd(x, y) ==
    LET g == GCD(x[2], y[2])
    IN  R(x[1] * (y[2] \div g) + y[1] * (x[2] \div g), (x[2] \div g) * y[2])
RSub(x, y) == RAdd(x, <<-y[1], y[2]>>)
RMul(x, y) ==
    LET g == GCD(Abs(x[1]), y[2])
        h == GCD(Abs(y[1]), x[2])
    IN  IF x[1] = 0 \/ y[1] = 0 THEN <<0, 1>>
        ELSE <<(x[1] \div g) * (y[1] \div h), (x[2] \div h) * (y[2] \div g)>>
\* x / y of Python, defined for y # 0 (y == 0 raises ZeroDivisionError)
RDiv(x, y) == RMul(x, IF y[1] < 0 THEN <<-y[2], -y[1]>> ELSE <<y[2], y[1]>>)
RNeg(x) == <<-x[1], x[2]>>
RAbs(x) == <<Abs(x[1]), x[2]>>
RLt(x, y) == x[1] * y[2] < y[1] * x[2]
RLe(x, y) == x[1] * y[2] <= y[1] * x[2]
RPos(x) == x[1] > 0
RNegative(x) == x[1] < 0
RIsZero(x) == x[1] = 0
RMin(x, y) == IF RLe(x, y) THEN x ELSE y
RMax(x, y) == IF RLe(x, y) THEN y ELSE x
IsInt(x) == x[2] = 1
\* floor(x) of mathematics
RFloor(x) == I(x[1] \div x[2])
\* int(x) of Python: truncation towards zero
RInt_rounds_up(x) == IF x[2] = 1 THEN x ELSE I((x[1] \div x[2]) + 1)
RInt(x) == IF x[1] >= 0 THEN I(x[1] \div x[2]) ELSE I(-((-x[1]) \div x[2]))

(***************************************************************************)
(* get_cost_basis (strategies/base.py).                                    *)
(***************************************************************************)
get_cost_basis_adds_signed(current_cost_basis, current_quantity, new_quantity, new_price) ==
    LET is_long == RPos(current_quantity)
        is_short == RNegative(current_quantity)
    IN  IF (RPos(new_quantity) /\ is_long) \/ (RNegative(new_quantity) /\ is_short)
        THEN LET total_value == RAdd(RMul(current_cost_basis, current_quantity),
                                     RMul(new_price, new_quantity))
                 total_quantity == RAdd(RAbs(current_quantity), RAbs(new_quantity))
             IN  RDiv(total_value, total_quantity)
        ELSE IF RLe(RAbs(new_quantity), RAbs(current_quantity))
             THEN current_cost_basis
             ELSE new_price

get_cost_basis_close_strict(current_cost_basis, current_quantity, new_quantity, new_price) ==
    LET is_long == RPos(current_quantity)
        is_short == RNegative(current_quantity)
    IN  IF (RPos(new_quantity) /\ is_long) \/ (RNegative(new_quantity) /\ is_short)
        THEN LET total_value == RAdd(RMul(current_cost_basis, RAbs(current_quantity)),
                                     RMul(new_price, RAbs(new_quantity)))
                 total_quantity == RAdd(RAbs(current_quantity), RAbs(new_quantity))
             IN  RDiv(total_value, total_quantity)
        ELSE IF RLt(RAbs(new_quantity), RAbs(current_quantity))
             THEN current_cost_basis
             ELSE new_price

get_cost_basis_reversal_averages(current_cost_basis, current_quantity, new_quantity, new_price) ==
    LET is_long == RPos(current_quantity)
        is_short == RNegative(current_quantity)
        total_value == RAdd(RMul(current_cost_basis, RAbs(current_quantity)),
                            RMul(new_price, RAbs(new_quantity)))
        total_quantity == RAdd(RAbs(current_quantity), RAbs(new_quantity))
    IN  IF (RPos(new_quantity) /\ is_long) \/ (RNegative(new_quantity) /\ is_short)
        THEN RDiv(total_value, total_quantity)
        ELSE IF RLe(RAbs(new_quantity), RAbs(current_quantity))
             THEN current_cost_basis
             ELSE IF RIsZero(current_quantity) THEN new_price
                  ELSE RDiv(total_value, total_quantity)

get_cost_basis_plain_average(current_cost_basis, current_quantity, new_quantity, new_price) ==
    LET is_long == RPos(current_quantity)
        is_short == RNegative(current_quantity)
    IN  IF (RPos(new_quantity) /\ is_long) \/ (RNegative(new_quantity) /\ is_short)
        THEN RDiv(RAdd(current_cost_basis, new_price), I(2))
        ELSE IF RLe(RAbs(new_quantity), RAbs(current_quantity))
             THEN current_cost_basis
             ELSE new_price

get_cost_basis(current_cost_basis, current_quantity, new_quantity, new_price) ==
    LET is_long == RPos(current_quantity)
        is_short == RNegative(current_quantity)
    IN  IF (RPos(new_quantity) /\ is_long) \/ (RNegative(new_quantity) /\ is_short)
        THEN \* adding to the position (same direction)
             LET total_value == RAdd(RMul(current_cost_basis, RAbs(current_quantity)),
                                     RMul(new_price, RAbs(new_quantity)))
                 total_quantity == RAdd(RAbs(current_quantity), RAbs(new_quantity))
             IN  RDiv(total_value, total_quantity)
        ELSE \* partially closing or reversing the position
             IF RLe(RAbs(new_quantity), RAbs(current_quantity))
             THEN current_cost_basis
             ELSE new_price

(***************************************************************************)
(* State.                                                                  *)
(***************************************************************************)
VARIABLES
    strategy,          \* the strategy class added to cerebro
    datas,             \* names of the data feeds added to cerebro, in order
    tickers,           \* params.tickers, the instruments of the ledger, in order
    rebalance_period,  \* params.rebalance_period
    weights,           \* params.weights (a dict, normalised in place)
    day,               \* number of bars delivered to next so far
    close,             \* data.close[0] of every ticker
    dividend_per_share,\* the dividends column of price_data at the date of the bar
    cash,              \* broker cash
    position,          \* broker position size of every ticker
    pending,           \* orders handed to buy / sell, not yet executed
    cost_basis,        \* self.cost_basis
    unrealized_pnl,    \* self.unrealized_pnl
    realized_pnl,      \* self.realized_pnl
    position_size,     \* self.position_size
    position_value,    \* self.position_value
    portfolio_tracker, \* self.portfolio_tracker
    rebalance_day,     \* self.rebalance_day / self.rebalance_date
    pc,                \* position inside next
    todo,              \* tickers the rebalance loop still has to visit
    portfolio_value,   \* broker.getvalue() read at the start of a rebalance
    atr_weights,       \* asset_atr_weights of the running rebalance
    target_values,     \* target_values of the running MAMAC rebalance
    target_value,      \* target_value of the cash ticker in that rebalance
    last,              \* the most recent _submit_order call
    cb_call,           \* the most recent get_cost_basis call
    err,               \* the exception that ended the run, if any
    tester             \* the BackTester object, its clock and its checkpoint files

vars == <<strategy, datas, tickers, rebalance_period, weights, day, close,
          dividend_per_share, cash,
          position, pending, cost_basis, unrealized_pnl, realized_pnl,
          position_size, position_value, portfolio_tracker, rebalance_day,
          pc, todo, portfolio_value, atr_weights, target_values,
          target_value, last,
          cb_call, err, tester>>

config == <<strategy, datas, tickers, rebalance_period, tester>>
ledger == <<cost_basis, unrealized_pnl, realized_pnl, position_size, position_value>>
broker == <<cash, position, pending>>
loopvars == <<todo, portfolio_value, atr_weights, target_values, target_value>>

None == "None"
EmptyDict == [t \in {} |-> Zero]
SHV == "SHV"

Range(s) == {s[i] : i \in 1..Len(s)}

RECURSIVE RSumSeq(_, _)
\* sum(f[t] for t in s)
RSumSeq(f, s) == IF s = <<>> THEN Zero ELSE RAdd(f[Head(s)], RSumSeq(f, Tail(s)))

RECURSIVE RSumSet(_, _)
\* sum(f.values()) over the keys S
RSumSet(f, S) ==
    IF S = {} THEN Zero
    ELSE LET t == CHOOSE x \in S : TRUE
         IN  RAdd(f[t], RSumSet(f, S \ {t}))

RECURSIVE SelectNot(_, _)
SelectNot(s, x) ==
    IF s = <<>> THEN <<>>
    ELSE IF Head(s) = x THEN SelectNot(Tail(s), x)
         ELSE <<Head(s)>> \o SelectNot(Tail(s), x)

(***************************************************************************)
(* The broker collaborator (backtrader): a market order handed to buy or   *)
(* sell during next is executed in full before the next bar is delivered,  *)
(* at the order's reference price; no commission.                          *)
(***************************************************************************)
\* broker.getvalue()
getvalue(c, pos, cl, tks) ==
    RAdd(c, RSumSeq([t \in Range(tks) |-> RMul(pos[t], I(cl[t]))], tks))

signed(o) == IF o.side = "buy" THEN o.size ELSE RNeg(o.size)

RECURSIVE fill_cash(_, _)
fill_cash(c, orders) ==
    IF orders = <<>> THEN c
    ELSE fill_cash(RSub(c, RMul(signed(Head(orders)), Head(orders).price)), Tail(orders))

RECURSIVE fill_position(_, _)
fill_position(pos, orders) ==
    IF orders = <<>> THEN pos
    ELSE LET o == Head(orders)
         IN  fill_position([pos EXCEPT ![o.ticker] = RAdd(@, signed(o))], Tail(orders))

(***************************************************************************)
(* BaseStrategy._track_portfolio (strategies/base.py).                     *)
(***************************************************************************)
\* line 36
mark_unrealized_at_entry(price, cb, size) == RMul(RSub(I(price), Zero), size)
mark_unrealized(price, cb, size) == RMul(RSub(I(price), cb), size)

\* line 38
mark_value(price, cb, size) == RMul(I(price), size)

\* line 52
tracker_append_overwrites(tracker, state) ==
    IF tracker = <<>> THEN <<state>>
    ELSE [tracker EXCEPT ![Len(tracker)] = state]
tracker_append(tracker, state) == Append(tracker, state)

\* lines 45-47: the snapshot takes the value every ticker has in a dict of
\* the ledger at this moment
snapshot_fields_zeroed(d) == [t \in DOMAIN d |-> Zero]
snapshot_fields(d) == [t \in Range(tickers) |-> d[t]]

\* lines 24-34: the dividend cash of the day
day_dividends_per_share(dv, pos, tks) ==
    RSumSeq([t \in Range(tks) |-> I(dv[t])], tks)

day_dividends(dv, pos, tks) ==
    RSumSeq([t \in Range(tks) |-> RMul(I(dv[t]), pos[t])], tks)

\* the bars a day can bring: the closes and the dividends per share of the
\* tickers of the run
Bars(T) ==
    { [close |-> [t \in T |-> 2], dividends |-> [t \in T |-> 0]],
      [close |-> [t \in T |-> 3], dividends |-> [t \in T |-> 0]],
      [close |-> [t \in T |-> IF t = "A" THEN 3 ELSE 2], dividends |-> [t \in T |-> 1]] }

\* A bar arrives: the broker executes the pending orders, then next calls
\* _track_portfolio.
TrackPortfolio ==
    /\ pc = "idle"
    /\ day < MaxDays
    /\ \E bar \in Bars(Range(datas)) :
         LET cl == bar.close
             dv == bar.dividends
             pos == fill_position(position, pending)
             dividends == day_dividends(dv, pos, tickers)
             c == RAdd(fill_cash(cash, pending), dividends)
             u == [t \in Range(tickers) |-> mark_unrealized(cl[t], cost_basis[t], pos[t])]
             v == [t \in Range(tickers) |-> mark_value(cl[t], cost_basis[t], pos[t])]
             portfolio_state ==
                 [date |-> day,
                  portfolio_value |-> getvalue(c, pos, cl, datas),
                  dividends |-> dividends,
                  cost_basis |-> snapshot_fields(cost_basis),
                  unrealized_pnl |-> u,
                  realized_pnl |-> snapshot_fields(realized_pnl),
                  position_size |-> [t \in Range(tickers) |-> pos[t]],
                  position_value |-> v]
         IN  /\ close' = cl
             /\ dividend_per_share' = dv
             /\ position' = pos
             /\ cash' = c
             /\ pending' = <<>>
             /\ unrealized_pnl' = u
             /\ position_size' = [t \in Range(tickers) |-> pos[t]]
             /\ position_value' = v
             /\ portfolio_tracker' = tracker_append(portfolio_tracker, portfolio_state)
    /\ day' = day + 1
    /\ pc' = "strategy"
    /\ UNCHANGED <<config, weights, cost_basis, realized_pnl, rebalance_day,
                   loopvars, last, cb_call, err>>

(***************************************************************************)
(* BaseStrategy._submit_order (strategies/base.py).                        *)
(***************************************************************************)
\* lines 74-77: the change of realized P&L
realized_delta_new_basis(current_position, quantity, price, current_cost_basis) ==
    LET cb == get_cost_basis(current_cost_basis, current_position, quantity, price)
    IN  IF RPos(current_position) /\ RNegative(quantity)
        THEN RMul(RSub(price, cb), RMin(RNeg(quantity), current_position))
        ELSE IF RNegative(current_position) /\ RPos(quantity)
             THEN RMul(RSub(cb, price), RMin(quantity, RNeg(current_position)))
             ELSE Zero

realized_delta_whole_order(current_position, quantity, price, current_cost_basis) ==
    IF RPos(current_position) /\ RNegative(quantity)
    THEN RMul(RSub(price, current_cost_basis), RNeg(quantity))
    ELSE IF RNegative(current_position) /\ RPos(quantity)
         THEN RMul(RSub(current_cost_basis, price), quantity)
         ELSE Zero

realized_delta(current_position, quantity, price, current_cost_basis) ==
    IF RPos(current_position) /\ RNegative(quantity)
    THEN RMul(RSub(price, current_cost_basis), RMin(RNeg(quantity), current_position))
    ELSE IF RNegative(current_position) /\ RPos(quantity)
         THEN RMul(RSub(current_cost_basis, price), RMin(quantity, RNeg(current_position)))
         ELSE Zero

\* lines 57-60: the call of self.buy / self.sell
route_always_buys(ticker, quantity, price) ==
    [ticker |-> ticker, side |-> "buy", size |-> RAbs(quantity), price |-> price]

route(ticker, quantity, price) ==
    IF RPos(quantity)
    THEN [ticker |-> ticker, side |-> "buy", size |-> quantity, price |-> price]
    ELSE [ticker |-> ticker, side |-> "sell", size |-> RNeg(quantity), price |-> price]

\* the cash the orders so far have brought (or cost, if negative), by
\* ticker, when each is executed at its price: -quantity * price more
add_flow(flow, ticker, amount) ==
    [t \in DOMAIN flow \cup {ticker} |->
        IF t \notin DOMAIN flow THEN amount
        ELSE IF t = ticker THEN RAdd(flow[t], amount) ELSE flow[t]]

\* _submit_order(ticker, quantity, price); target and value are what the
\* caller computed the quantity from.  Line 63 reads self.cost_basis[ticker]
\* after the call of buy / sell: for a ticker that is no key of the ledger
\* it raises KeyError there.
submit_order(ticker, quantity, price, target_weight, value) ==
    IF ticker \notin DOMAIN cost_basis
    THEN /\ pending' = Append(pending, route(ticker, quantity, price))
         /\ err' = "KeyError"
         /\ UNCHANGED <<cost_basis, realized_pnl, cb_call, last>>
    ELSE
    LET current_cost_basis == cost_basis[ticker]
        current_position == position[ticker]
        cb == get_cost_basis(current_cost_basis, current_position, quantity, price)
    IN  /\ pending' = Append(pending, route(ticker, quantity, price))
        /\ UNCHANGED err
        /\ cost_basis' = [cost_basis EXCEPT ![ticker] = cb]
        /\ realized_pnl' = [realized_pnl EXCEPT ![ticker] =
               RAdd(@, realized_delta(current_position, quantity, price, current_cost_basis))]
        /\ cb_call' = [cb |-> current_cost_basis, q |-> current_position,
                       n |-> quantity, p |-> price, out |-> cb, called |-> TRUE]
        /\ last' = [ticker |-> ticker, quantity |-> quantity, price |-> price,
                    cb0 |-> current_cost_basis, pos0 |-> current_position,
                    rp0 |-> realized_pnl[ticker], cb1 |-> cb,
                    order |-> route(ticker, quantity, price),
                    target_weight |-> target_weight, value |-> value,
                    date |-> day - 1, called |-> TRUE,
                    flow |-> add_flow(last.flow, ticker, RNeg(RMul(quantity, price)))]

no_order == UNCHANGED <<pending, cost_basis, realized_pnl, cb_call, last, err>>

\* before the first call
NoCall == [cb |-> Zero, q |-> Zero, n |-> Zero, p |-> Zero, out |-> Zero, called |-> FALSE]
NoOrder ==
    [ticker |-> None, quantity |-> Zero, price |-> Zero, cb0 |-> Zero, pos0 |-> Zero,
     rp0 |-> Zero, cb1 |-> Zero, order |-> route(None, Zero, Zero),
     target_weight |-> Zero, value |-> Zero, date |-> 0, called |-> FALSE,
     flow |-> EmptyDict]

(***************************************************************************)
(* Single-instrument strategies.  self.data is the first data feed.        *)
(***************************************************************************)
data0 == Head(datas)
value_now == getvalue(cash, position, close, datas)

\* next returns, or the exception of _submit_order leaves it
finish_day ==
    /\ pc' = IF err' = None THEN "idle" ELSE "error"
    /\ UNCHANGED <<config, weights, day, close, dividend_per_share, cash,
                   position, unrealized_pnl, position_size, position_value,
                   portfolio_tracker, loopvars>>

\* BuyHoldStrategy.next (strategies/buy_hold.py), after super().next()
BuyHoldNext ==
    /\ pc = "strategy"
    /\ strategy = "BuyHold"
    /\ LET target_position == RInt(RDiv(value_now, I(close[data0])))
           current_position == position[data0]
       IN  IF RLt(current_position, target_position) \/ RLt(target_position, current_position)
           THEN submit_order(data0, RSub(target_position, current_position),
                             I(close[data0]), One, value_now)
           ELSE no_order
    /\ UNCHANGED rebalance_day
    /\ finish_day

\* TrendFollowingStrategy.next (strategies/trend_following.py), after
\* super().next(); up is returns[0] > 0
TrendFollowingNext ==
    /\ pc = "strategy"
    /\ strategy = "TrendFollowing"
    /\ \E up \in BOOLEAN :
         LET current_position == position[data0]
             target_position == IF up THEN RDiv(value_now, I(close[data0])) ELSE Zero
         IN  submit_order(data0, RSub(target_position, current_position),
                          I(close[data0]), IF up THEN One ELSE Zero, value_now)
    /\ UNCHANGED rebalance_day
    /\ finish_day

\* params rebound_fast_weight, correction_fast_weight
rebound_fast_weight == R(1, 2)
correction_fast_weight == R(1, 2)

\* lines 48-62 / 89-103: the blended target of the two lookbacks
dual_target(fast_up, slow_up) ==
    LET fast_position == IF fast_up THEN One ELSE Zero
        slow_position == IF slow_up THEN One ELSE Zero
    IN  IF fast_up /\ ~slow_up
        THEN RAdd(RMul(rebound_fast_weight, fast_position),
                  RMul(RSub(One, rebound_fast_weight), slow_position))
        ELSE IF ~fast_up /\ slow_up
             THEN RAdd(RMul(correction_fast_weight, fast_position),
                       RMul(RSub(One, correction_fast_weight), slow_position))
             ELSE fast_position

\* DualLookbackTrendFollowing.next and DualPeriodSMAStrategy.next, after
\* super().next(); fast_up is fast_returns[0] >= 0, slow_up slow_returns[0] >= 0
DualLookbackNext ==
    /\ pc = "strategy"
    /\ strategy \in {"DualLookback", "DualPeriodSMA"}
    /\ \E fast_up \in BOOLEAN, slow_up \in BOOLEAN :
         LET current_position == position[data0]
             target_position == RMul(dual_target(fast_up, slow_up),
                                     RDiv(value_now, I(close[data0])))
         IN  submit_order(data0, RSub(target_position, current_position),
                          I(close[data0]), dual_target(fast_up, slow_up), value_now)
    /\ UNCHANGED rebalance_day
    /\ finish_day

\* the decision of a day: day_counter % rebalance_period == 0
is_rebalance_after_increment(counter, period) == (counter + 1) % period = 0
is_rebalance(counter, period) == counter % period = 0

\* MovingAverageCrossoverStrategy.next, after super().next(); up is
\* sma_short[0] - sma_long[0] >= 0
MovingAverageCrossoverNext ==
    /\ pc = "strategy"
    /\ strategy = "MovingAverageCrossover"
    /\ IF is_rebalance(rebalance_day, rebalance_period)
       THEN /\ \E up \in BOOLEAN :
                 LET current_position == position[data0]
                     target_position == IF up THEN RDiv(value_now, I(close[data0])) ELSE Zero
                 IN  submit_order(data0, RSub(target_position, current_position),
                                  I(close[data0]), IF up THEN One ELSE Zero, value_now)
            /\ rebalance_day' = 0 + 1
       ELSE /\ no_order
            /\ rebalance_day' = rebalance_day + 1
    /\ finish_day

(***************************************************************************)
(* Multi-instrument strategies: the rebalance loop visits one ticker per   *)
(* step; the step that visits the last ticker ends next.                   *)
(***************************************************************************)
keep_day == UNCHANGED <<config, day, close, dividend_per_share, cash, position,
                        unrealized_pnl, position_size, position_value,
                        portfolio_tracker>>

\* the loop moves on; after the last ticker next increments the counter
loop_advance ==
    IF err' # None
    THEN pc' = "error" /\ UNCHANGED <<todo, rebalance_day>>
    ELSE /\ todo' = Tail(todo)
         /\ IF Tail(todo) = <<>>
            THEN pc' = "idle" /\ rebalance_day' = rebalance_day + 1
            ELSE pc' = "rebalance" /\ UNCHANGED rebalance_day

raise(e) ==
    /\ pc' = "error"
    /\ err' = e

\* int(target_weight * portfolio_value / price)
target_size(weight, value, price) == RInt(RDiv(RMul(value, weight), I(price)))

\* StaticAllocationStrategy.next (strategies/static_allocation.py), after
\* super().next()
StaticAllocationNext ==
    /\ pc = "strategy"
    /\ strategy = "StaticAllocation"
    /\ IF is_rebalance(rebalance_day, rebalance_period)
       THEN /\ portfolio_value' = value_now
            /\ todo' = tickers
            /\ pc' = "rebalance"
            /\ UNCHANGED rebalance_day
       ELSE /\ rebalance_day' = rebalance_day + 1
            /\ pc' = "idle"
            /\ UNCHANGED <<todo, portfolio_value>>
    /\ no_order
    /\ keep_day
    /\ UNCHANGED <<weights, atr_weights, target_values, target_value>>

weights_get_equal_share(w, ticker) ==
    IF ticker \in DOMAIN w THEN w[ticker] ELSE R(1, 2)

\* self.params.weights.get(ticker, 0)
weights_get(w, ticker) == IF ticker \in DOMAIN w THEN w[ticker] ELSE Zero

\* one round of the loop of StaticAllocationStrategy.rebalance_portfolio
StaticAllocationRebalance ==
    /\ pc = "rebalance"
    /\ strategy = "StaticAllocation"
    /\ LET ticker == Head(todo)
           weight == weights_get(weights, ticker)
       IN  IF RIsZero(weight)
           THEN no_order
           ELSE LET target == target_size(weight, portfolio_value, close[ticker])
                    current_size == position[ticker]
                    quantity == RSub(target, current_size)
                IN  submit_order(ticker, quantity, I(close[ticker]), weight, portfolio_value)
    /\ loop_advance
    /\ keep_day
    /\ UNCHANGED <<weights, portfolio_value, atr_weights, target_values, target_value>>

\* AdvancedTrendFollowingStrategy._calculate_atr_weights
asset_inverse_atr(ticker) ==
    LET total_pnl == RAdd(RMax(Zero, RAdd(RSumSeq(unrealized_pnl, tickers),
                                          RSumSeq(realized_pnl, tickers))), One)
    IN  RAdd(RDiv(RMax(Zero, RAdd(unrealized_pnl[ticker], realized_pnl[ticker])),
                  total_pnl), One)

calculate_atr_weights ==
    LET inv == [ticker \in Range(tickers) |-> asset_inverse_atr(ticker)]
    IN  [ticker \in Range(tickers) |-> RDiv(inv[ticker], RSumSeq(inv, tickers))]

\* AdvancedTrendFollowingStrategy.next, after super().next()
AdvancedTrendFollowingNext ==
    /\ pc = "strategy"
    /\ strategy = "AdvancedTrendFollowing"
    /\ IF is_rebalance(rebalance_day, rebalance_period)
       THEN /\ portfolio_value' = value_now
            /\ atr_weights' = calculate_atr_weights
            /\ todo' = tickers
            /\ pc' = "rebalance"
            /\ UNCHANGED rebalance_day
       ELSE /\ rebalance_day' = rebalance_day + 1
            /\ pc' = "idle"
            /\ UNCHANGED <<todo, portfolio_value, atr_weights>>
    /\ no_order
    /\ keep_day
    /\ UNCHANGED <<weights, target_values, target_value>>

\* the indicator readings (fast_returns >= 0, slow_returns >= 0,
\* sma_trend[0] >= 0) a ticker can show at a rebalance: uptrend, downtrend,
\* rebound inside a downtrend
AdvancedSignals == {<<TRUE, TRUE, TRUE>>, <<FALSE, FALSE, FALSE>>, <<TRUE, FALSE, FALSE>>}

\* lines 172-203: the signed target weight of one ticker
advanced_target_weight(fast_up, slow_up, sma_up) ==
    LET long_target == IF sma_up THEN One ELSE Zero
        short_target == IF sma_up THEN Zero ELSE I(-1)
    IN  IF fast_up
        THEN IF slow_up
             THEN long_target
             ELSE RAdd(RMul(rebound_fast_weight, long_target),
                       RMul(RSub(One, rebound_fast_weight), short_target))
        ELSE IF ~slow_up
             THEN short_target
             ELSE RAdd(RMul(correction_fast_weight, short_target),
                       RMul(RSub(One, correction_fast_weight), long_target))

\* one round of the loop of AdvancedTrendFollowingStrategy.rebalance_portfolio;
\* fast_up is fast_returns >= 0, slow_up slow_returns >= 0, sma_up sma_trend[0] >= 0
AdvancedTrendFollowingRebalance ==
    /\ pc = "rebalance"
    /\ strategy = "AdvancedTrendFollowing"
    /\ \E sig \in AdvancedSignals :
         LET fast_up == sig[1]
             slow_up == sig[2]
             sma_up == sig[3]
             ticker == Head(todo)
             target_weight == RMul(advanced_target_weight(fast_up, slow_up, sma_up),
                                   atr_weights[ticker])
             target_position == target_size(target_weight, portfolio_value, close[ticker])
             current_position == position[ticker]
         IN  submit_order(ticker, RSub(target_position, current_position),
                          I(close[ticker]), target_weight, portfolio_value)
    /\ loop_advance
    /\ keep_day
    /\ UNCHANGED <<weights, portfolio_value, atr_weights, target_values, target_value>>

(***************************************************************************)
(* Moving-average crossover allocators.                                    *)
(***************************************************************************)
\* params.ticker_list: the runs list every data feed in it
ticker_list == datas

RECURSIVE normalize_listed_running(_, _, _)
normalize_listed_running(w, list, total_weight) ==
    IF list = <<>> THEN [weights |-> w, err |-> None]
    ELSE IF Head(list) \notin DOMAIN w THEN [weights |-> w, err |-> "KeyError"]
    ELSE IF RIsZero(RSumSet(w, DOMAIN w)) THEN [weights |-> w, err |-> "ZeroDivisionError"]
    ELSE normalize_listed_running([w EXCEPT ![Head(list)] = RDiv(@, RSumSet(w, DOMAIN w))],
                                  Tail(list), total_weight)

RECURSIVE normalize_listed(_, _, _)
\* lines 306-308: for ticker in ticker_list: weights[ticker] /= total_weight
normalize_listed(w, list, total_weight) ==
    IF list = <<>> THEN [weights |-> w, err |-> None]
    ELSE IF Head(list) \notin DOMAIN w THEN [weights |-> w, err |-> "KeyError"]
    ELSE IF RIsZero(total_weight) THEN [weights |-> w, err |-> "ZeroDivisionError"]
    ELSE normalize_listed([w EXCEPT ![Head(list)] = RDiv(@, total_weight)],
                          Tail(list), total_weight)

\* lines 364-366: for ticker in weights: weights[ticker] /= total_weight
normalize_keys(w, total_weight) ==
    IF DOMAIN w = {} THEN [weights |-> w, err |-> None]
    ELSE IF RIsZero(total_weight) THEN [weights |-> w, err |-> "ZeroDivisionError"]
    ELSE [weights |-> [k \in DOMAIN w |-> RDiv(w[k], total_weight)], err |-> None]

\* MultiAssetMovingAverageCrossoverStrategy.next, after super().next(), up to
\* the loop of rebalance that computes the target positions
MultiAssetMovingAverageCrossoverNext ==
    /\ pc = "strategy"
    /\ strategy = "MultiAssetMovingAverageCrossover"
    /\ IF is_rebalance(rebalance_day, rebalance_period)
       THEN LET total_weight == RSumSet(weights, DOMAIN weights)
                n == normalize_listed(weights, ticker_list, total_weight)
            IN  /\ portfolio_value' = value_now
                /\ weights' = n.weights
                /\ rebalance_day' = 0
                /\ IF n.err # None
                   THEN raise(n.err) /\ UNCHANGED todo
                   ELSE todo' = ticker_list /\ pc' = "rebalance" /\ UNCHANGED err
       ELSE /\ rebalance_day' = rebalance_day + 1
            /\ pc' = "idle"
            /\ UNCHANGED <<todo, portfolio_value, weights, err>>
    /\ UNCHANGED <<pending, cost_basis, realized_pnl, cb_call, last>>
    /\ UNCHANGED <<config, day, close, dividend_per_share, cash, position,
                   unrealized_pnl, position_size, position_value,
                   portfolio_tracker, atr_weights, target_values, target_value>>

\* one round of the loop of MultiAssetMovingAverageCrossoverStrategy.rebalance;
\* up is sma_short[ticker][0] - sma_long[ticker][0] >= 0
MultiAssetMovingAverageCrossoverRebalance ==
    /\ pc = "rebalance"
    /\ strategy = "MultiAssetMovingAverageCrossover"
    /\ \E up \in BOOLEAN :
         LET ticker == Head(todo)
             current_position == position[ticker]
             signal == IF up THEN One ELSE Zero
             target == RDiv(RMul(RMul(signal, weights[ticker]), portfolio_value),
                            I(close[ticker]))
             difference == RSub(target, current_position)
         IN  IF ~RIsZero(difference)
             THEN submit_order(ticker, difference, I(close[ticker]),
                               RMul(signal, weights[ticker]), portfolio_value)
             ELSE no_order
    /\ loop_advance
    /\ keep_day
    /\ UNCHANGED <<weights, portfolio_value, atr_weights, target_values, target_value>>

\* MAMACStrategy.next, after super().next(), up to the loop of rebalance that
\* computes the target positions
MAMACNext ==
    /\ pc = "strategy"
    /\ strategy = "MAMAC"
    /\ IF is_rebalance(rebalance_day, rebalance_period)
       THEN LET total_weight == RSumSet(weights, DOMAIN weights)
                n == normalize_keys(weights, total_weight)
                others == SelectNot(ticker_list, SHV)
            IN  /\ portfolio_value' = value_now
                /\ weights' = n.weights
                /\ target_values' = EmptyDict
                /\ IF n.err # None
                   THEN raise(n.err) /\ UNCHANGED todo /\ rebalance_day' = 0
                   ELSE /\ todo' = others
                        /\ UNCHANGED err
                        /\ IF others # <<>>
                           THEN pc' = "rebalance" /\ rebalance_day' = 0
                           ELSE IF SHV \in Range(ticker_list)
                                THEN pc' = "cash" /\ rebalance_day' = 0
                                ELSE pc' = "idle" /\ rebalance_day' = 0 + 1
       ELSE /\ rebalance_day' = rebalance_day + 1
            /\ pc' = "idle"
            /\ UNCHANGED <<todo, portfolio_value, weights, target_values, err>>
    /\ UNCHANGED <<pending, cost_basis, realized_pnl, cb_call, last>>
    /\ UNCHANGED <<config, day, close, dividend_per_share, cash, position,
                   unrealized_pnl, position_size, position_value,
                   portfolio_tracker, atr_weights, target_value>>

\* one round of the first loop of MAMACStrategy.rebalance (the tickers other
\* than the cash ticker); up is sma_short[ticker][0] - sma_long[ticker][0] >= 0
MAMACRebalance ==
    /\ pc = "rebalance"
    /\ strategy = "MAMAC"
    /\ LET ticker == Head(todo)
       IN  IF ticker \notin DOMAIN weights
           THEN /\ raise("KeyError")
                /\ UNCHANGED <<pending, cost_basis, realized_pnl, cb_call, last>>
                /\ UNCHANGED <<todo, target_values, rebalance_day>>
           ELSE /\ \E up \in BOOLEAN :
                     LET current_position == position[ticker]
                         target_position == IF up THEN One ELSE Zero
                         tv == RMul(RMul(target_position, weights[ticker]), portfolio_value)
                         ts == RDiv(tv, I(close[ticker]))
                         difference == RSub(ts, current_position)
                     IN  /\ target_values' =
                               [t \in DOMAIN target_values \cup {ticker} |->
                                   IF t = ticker THEN tv ELSE target_values[t]]
                         /\ IF ~RIsZero(difference)
                            THEN submit_order(ticker, difference, I(close[ticker]),
                                              RMul(target_position, weights[ticker]),
                                              portfolio_value)
                            ELSE no_order
                /\ todo' = Tail(todo)
                /\ IF err' # None
                   THEN pc' = "error" /\ UNCHANGED rebalance_day
                   ELSE IF Tail(todo) # <<>>
                   THEN pc' = "rebalance" /\ UNCHANGED rebalance_day
                   ELSE IF SHV \in Range(ticker_list)
                        THEN pc' = "cash" /\ UNCHANGED rebalance_day
                        ELSE pc' = "idle" /\ rebalance_day' = rebalance_day + 1
    /\ UNCHANGED <<config, day, close, dividend_per_share, cash, position,
                   unrealized_pnl, position_size, position_value,
                   portfolio_tracker, weights, portfolio_value, atr_weights,
                   target_value>>

\* line 392: what is left for the cash ticker
cash_target_value_by_weights(value, tvs) ==
    RMul(value, RSub(One, RSumSet(weights, DOMAIN weights \ {SHV})))
cash_target_value(value, tvs) == RSub(value, RSumSet(tvs, DOMAIN tvs))

\* lines 389-397 of MAMACStrategy.rebalance: the cash ticker takes the rest
MAMACCash ==
    /\ pc = "cash"
    /\ strategy = "MAMAC"
    /\ LET current_position == position[SHV]
           tv == cash_target_value(portfolio_value, target_values)
           ts == RDiv(tv, I(close[SHV]))
           difference == RSub(ts, current_position)
       IN  /\ target_value' = tv
           /\ IF ~RIsZero(difference)
              THEN submit_order(SHV, difference, I(close[SHV]),
                                IF RIsZero(portfolio_value) THEN Zero
                                ELSE RDiv(tv, portfolio_value), portfolio_value)
              ELSE no_order
    /\ IF err' # None
       THEN pc' = "error" /\ UNCHANGED rebalance_day
       ELSE pc' = "idle" /\ rebalance_day' = rebalance_day + 1
    /\ UNCHANGED <<config, day, close, dividend_per_share, cash, position,
                   unrealized_pnl, position_size, position_value,
                   portfolio_tracker, weights, todo, portfolio_value,
                   atr_weights, target_values>>

(***************************************************************************)
(* BackTester (utils/backtester.py): the drawdown column and the metrics.  *)
(* A float division by zero of pandas gives inf or nan, one of Python      *)
(* floats raises ZeroDivisionError.                                        *)
(***************************************************************************)
NaN == <<0, 0>>
Inf == <<1, 0>>
IsNaN(x) == x = NaN

\* Series.cummax() at index i
cummax_of_whole_series(s, i) ==
    CHOOSE m \in Range(s) : \A j \in 1..Len(s) : RLe(s[j], m)

RECURSIVE cummax(_, _)
cummax(s, i) == IF i = 1 THEN s[1] ELSE RMax(cummax(s, i - 1), s[i])

\* line 60, one element: (running_max - value) / running_max
drawdown_at(m, v) ==
    IF RIsZero(m)
    THEN IF RIsZero(RSub(m, v)) THEN NaN ELSE Inf
    ELSE RDiv(RSub(m, v), m)

\* line 60: the drawdown column
drawdown(s) == [i \in 1..Len(s) |-> drawdown_at(cummax(s, i), s[i])]

RECURSIVE series_max(_)
\* Series.max(): the largest element, NaN skipped
series_max(s) ==
    IF s = <<>> THEN NaN
    ELSE LET rest == series_max(Tail(s))
         IN  IF IsNaN(Head(s)) THEN rest
             ELSE IF IsNaN(rest) THEN Head(s)
             ELSE RMax(rest, Head(s))

\* _calculate_metrics: the metrics that are rational in the values (cagr,
\* volatility and sharpe are powers and roots of them); err is the
\* exception of portfolio_values[-1] / portfolio_values[0]
calculate_metrics(t) ==
    LET portfolio_values == t.portfolio_value
    IN  IF ~t.has_tracker
        THEN [err |-> "AttributeError", metrics |-> EmptyDict]
        ELSE IF RIsZero(portfolio_values[1])
        THEN [err |-> "ZeroDivisionError", metrics |-> EmptyDict]
        ELSE [err |-> None,
              metrics |->
                 [cumulative_returns |->
                     RSub(RDiv(portfolio_values[Len(portfolio_values)],
                               portfolio_values[1]), One),
                  max_drawdown |-> series_max(t.drawdown)]]

\* backtest, lines 54-60: the frame built from the snapshots of the run
track(t, values) ==
    [t EXCEPT !.has_tracker = TRUE, !.portfolio_value = values,
              !.drawdown = drawdown(values)]

\* BackTester.__init__: no portfolio_tracker attribute yet
NewTester ==
    [results |-> <<>>, has_tracker |-> FALSE, portfolio_value |-> <<>>,
     drawdown |-> <<>>, metrics |-> EmptyDict, optimization_results |-> <<>>,
     combinations |-> <<>>, ran |-> <<>>, files |-> EmptyDict, now |-> 0]

(***************************************************************************)
(* A run: BackTester.__init__ sets the cash, add_strategy the strategy and *)
(* its params, the strategy's __init__ the ledger.                         *)
(***************************************************************************)
Periods == 1..MaxPeriod

AB == [t \in {"A", "B"} |-> One]

SingleStrategies == {"BuyHold", "TrendFollowing", "DualLookback", "DualPeriodSMA"}

Configs ==
    [strategy : SingleStrategies, tickers : {<<"A">>}, weights : {EmptyDict},
     rebalance_period : {1}]
    \cup
    [strategy : {"MovingAverageCrossover"}, tickers : {<<"A">>}, weights : {EmptyDict},
     rebalance_period : Periods]
    \cup
    [strategy : {"StaticAllocation"}, tickers : {<<"A", "B">>},
     weights : {EmptyDict, [AB EXCEPT !["A"] = R(3, 4), !["B"] = R(1, 4)],
                \* B has no weight, the key C names no instrument
                [t \in {"A", "C"} |-> One], [AB EXCEPT !["B"] = Zero]},
     rebalance_period : Periods]
    \cup
    [strategy : {"AdvancedTrendFollowing"}, tickers : {<<"A", "B">>},
     weights : {EmptyDict}, rebalance_period : Periods \ {1}]
    \cup
    [strategy : {"MultiAssetMovingAverageCrossover"}, tickers : {<<"A", "B">>},
     weights : {EmptyDict, AB, [AB EXCEPT !["B"] = I(3)], [t \in {"A", "B"} |-> Zero]},
     rebalance_period : Periods]
    \cup
    [strategy : {"MAMAC"}, tickers : {<<"A", "B", SHV>>},
     weights : {EmptyDict, AB, [AB EXCEPT !["B"] = I(3)], [t \in {"A", "B"} |-> Zero],
                [t \in {"A", "B", SHV} |-> IF t = SHV THEN I(2) ELSE One]},
     rebalance_period : Periods]
    \cup
    \* the data feed A is added, params.tickers is left at its default []
    [strategy : {"BuyHold"}, tickers : {<<>>}, weights : {EmptyDict},
     rebalance_period : {1}]

\* StaticAllocationStrategy.__init__: no weights means an equal split
initial_weights(c) ==
    IF c.strategy = "StaticAllocation" /\ c.weights = EmptyDict
    THEN [t \in Range(c.tickers) |-> R(1, Len(c.tickers))]
    ELSE c.weights

\* one strategy on the one data feed A
SingleRun ==
    [strategy |-> "BuyHold", tickers |-> <<"A">>, weights |-> EmptyDict,
     rebalance_period |-> 1]

\* the data feeds of a run: the tickers, or A alone when none is given
feeds(c) == IF c.tickers = <<>> THEN <<"A">> ELSE c.tickers

\* BaseStrategy.__init__ and the strategies' __init__
InitRun(c) ==
    /\ strategy = c.strategy
    /\ datas = feeds(c)
    /\ tickers = c.tickers
    /\ rebalance_period = c.rebalance_period
    /\ weights = initial_weights(c)
    /\ day = 0
    /\ close = [t \in Range(feeds(c)) |-> 2]
    /\ dividend_per_share = [t \in Range(feeds(c)) |-> 0]
    /\ cash = I(StartCash)
    /\ position = [t \in Range(feeds(c)) |-> Zero]
    /\ pending = <<>>
    /\ cost_basis = [t \in Range(c.tickers) |-> Zero]
    /\ unrealized_pnl = [t \in Range(c.tickers) |-> Zero]
    /\ realized_pnl = [t \in Range(c.tickers) |-> Zero]
    /\ position_size = [t \in Range(c.tickers) |-> Zero]
    /\ position_value = [t \in Range(c.tickers) |-> Zero]
    /\ portfolio_tracker = <<>>
    /\ rebalance_day = 0
    /\ todo = <<>>
    /\ portfolio_value = Zero
    /\ atr_weights = EmptyDict
    /\ target_values = EmptyDict
    /\ target_value = Zero
    /\ last = NoOrder
    /\ err = None

Init ==
    /\ \E c \in Configs : InitRun(c)
    /\ pc = "idle"
    /\ cb_call = NoCall
    /\ tester = NewTester

Next ==
    \/ TrackPortfolio
    \/ BuyHoldNext
    \/ TrendFollowingNext
    \/ DualLookbackNext
    \/ MovingAverageCrossoverNext
    \/ StaticAllocationNext
    \/ StaticAllocationRebalance
    \/ AdvancedTrendFollowingNext
    \/ AdvancedTrendFollowingRebalance
    \/ MultiAssetMovingAverageCrossoverNext
    \/ MultiAssetMovingAverageCrossoverRebalance
    \/ MAMACNext
    \/ MAMACRebalance
    \/ MAMACCash

Spec == Init /\ [][Next]_vars

(***************************************************************************)
(* get_cost_basis on its own: Init draws the arguments, the one action     *)
(* calls the function.                                                     *)
(***************************************************************************)
Halves(lo, hi) == {R(i, 2) : i \in (2 * lo)..(2 * hi)}

InitCalc ==
    /\ InitRun([strategy |-> "BuyHold", tickers |-> <<"A">>, weights |-> EmptyDict,
                rebalance_period |-> 1])
    /\ pc = "calc"
    /\ cb_call \in [cb : Halves(0, MaxQ + 1), q : Halves(-MaxQ, MaxQ),
                    n : Halves(-MaxQ, MaxQ), p : Halves(1, MaxQ + 1),
                    out : {Zero}, called : {FALSE}]
    /\ tester = NewTester

Calc ==
    /\ pc = "calc"
    /\ cb_call' = [cb_call EXCEPT
                      !.out = get_cost_basis(cb_call.cb, cb_call.q, cb_call.n, cb_call.p),
                      !.called = TRUE]
    /\ pc' = "calculated"
    /\ UNCHANGED <<config, weights, day, close, dividend_per_share, broker,
                   ledger, portfolio_tracker, rebalance_day, loopvars, last,
                   err>>

NextCalc == Calc

SpecCalc == InitCalc /\ [][NextCalc]_vars

(***************************************************************************)
(* Two calls of get_cost_basis in a row, as two orders of _submit_order    *)
(* make them: Init draws a position and two orders, the one action applies *)
(* the orders in both sequences.                                           *)
(***************************************************************************)
\* the cost basis after the order (n1, p1) and then the order (n2, p2), each
\* met by the position the orders before it left
two_fills(cb, q, n1, p1, n2, p2) ==
    get_cost_basis(get_cost_basis(cb, q, n1, p1), RAdd(q, n1), n2, p2)

InitFills ==
    /\ InitRun(SingleRun)
    /\ pc = "calc"
    /\ tester = NewTester
    /\ cb_call \in [cb : {I(i) : i \in 0..MaxQ}, q : Halves(-MaxQ, MaxQ),
                    n : Halves(-MaxQ, MaxQ), p : {I(i) : i \in 1..(MaxQ + 1)},
                    n2 : Halves(-MaxQ, MaxQ), p2 : {I(i) : i \in 1..(MaxQ + 1)},
                    out : {Zero}, out_swapped : {Zero}, called : {FALSE}]

Fills ==
    /\ pc = "calc"
    /\ cb_call' = [cb_call EXCEPT
                      !.out = two_fills(cb_call.cb, cb_call.q, cb_call.n, cb_call.p,
                                        cb_call.n2, cb_call.p2),
                      !.out_swapped = two_fills(cb_call.cb, cb_call.q, cb_call.n2,
                                                cb_call.p2, cb_call.n, cb_call.p),
                      !.called = TRUE]
    /\ pc' = "calculated"
    /\ UNCHANGED <<config, weights, day, close, dividend_per_share, broker, ledger,
                   portfolio_tracker, rebalance_day, loopvars, last, err>>

NextFills == Fills

SpecFills == InitFills /\ [][NextFills]_vars

(***************************************************************************)
(* backtest on its own: Init draws the portfolio values the snapshots of   *)
(* the run hold, the one action builds the frame and the metrics.          *)
(***************************************************************************)
Values == {I(v) : v \in -1..MaxValue}

Series == UNION {[1..n -> Values] : n \in 1..MaxSeries}

InitBacktest ==
    /\ InitRun(SingleRun)
    /\ pc = "tester"
    /\ cb_call = NoCall
    /\ \E values \in Series : tester = [NewTester EXCEPT !.results = values]

Backtest ==
    /\ pc = "tester"
    /\ tester.results # <<>>
    /\ LET t == track(tester, tester.results)
           m == calculate_metrics(t)
       IN  /\ tester' = [t EXCEPT !.metrics = m.metrics]
           /\ err' = m.err
           /\ pc' = IF m.err = None THEN "tested" ELSE "error"
    /\ UNCHANGED <<strategy, datas, tickers, rebalance_period, weights, day,
                   close, dividend_per_share, broker, ledger, portfolio_tracker,
                   rebalance_day, loopvars, last, cb_call>>

NextBacktest == Backtest

SpecBacktest == InitBacktest /\ [][NextBacktest]_vars

(***************************************************************************)
(* optimize_params: Init is a BackTester before or after a call of         *)
(* backtest; one action builds the combinations, one runs a round of the   *)
(* loop.                                                                   *)
(***************************************************************************)
\* {**a, **b}
merge(a, b) == [k \in DOMAIN a \cup DOMAIN b |-> IF k \in DOMAIN b THEN b[k] ELSE a[k]]

\* lines 72-73: itertools.product over param_ranges == {'rebalance_period':
\* [1, ..., MaxPeriod]}, cut to max_combinations
combinations_of(max_combinations) ==
    SubSeq([i \in 1..MaxPeriod |-> [rebalance_period |-> i]], 1,
           IF max_combinations < MaxPeriod THEN max_combinations ELSE MaxPeriod)

\* lines 120-123: open(filename, 'wb') creates or truncates the file of that
\* second
save_checkpoint(files, now, metrics) ==
    [f \in DOMAIN files \cup {now} |-> IF f = now THEN metrics ELSE files[f]]

\* what cerebro.run can give for a combination: the portfolio values of the
\* snapshots of its run
RunResults == {<<I(1), I(2)>>, <<I(2), I(1)>>}

InitOptimize ==
    /\ InitRun(SingleRun)
    /\ pc = "tester"
    /\ cb_call = NoCall
    /\ \/ tester = NewTester
       \/ \E values \in {v \in [1..2 -> Values] : RPos(v[1]) /\ RPos(v[2])} :
             LET t == track([NewTester EXCEPT !.results = values], values)
             IN  tester = [t EXCEPT !.metrics = calculate_metrics(t).metrics]

OptimizeParams ==
    /\ pc = "tester"
    /\ \E max_combinations \in 1..MaxPeriod :
         tester' = [tester EXCEPT !.combinations = combinations_of(max_combinations)]
    /\ pc' = "optimizing"
    /\ UNCHANGED <<strategy, datas, tickers, rebalance_period, weights, day,
                   close, dividend_per_share, broker, ledger, portfolio_tracker,
                   rebalance_day, loopvars, last, cb_call, err>>

\* one round of the loop of optimize_params, lines 75-85; the run takes tick
\* seconds of the clock, results is what it returns
OptimizeStep ==
    /\ pc = "optimizing"
    /\ tester.combinations # <<>>
    /\ \E results \in RunResults, tick \in 0..1 :
         LET params == Head(tester.combinations)
             now == tester.now + tick
             ran == [tester EXCEPT !.results = results, !.now = now,
                                   !.ran = Append(@, [params |-> params,
                                                      results |-> results])]
             m == calculate_metrics(ran)
             metrics == merge(params, m.metrics)
         IN  IF m.err # None
             THEN /\ tester' = ran
                  /\ err' = m.err
                  /\ pc' = "error"
             ELSE /\ tester' = [ran EXCEPT
                        !.optimization_results = Append(@, metrics),
                        !.files = save_checkpoint(@, now, metrics),
                        !.combinations = Tail(@)]
                  /\ UNCHANGED err
                  /\ pc' = IF Tail(tester.combinations) = <<>>
                           THEN "optimized" ELSE "optimizing"
    /\ UNCHANGED <<strategy, datas, tickers, rebalance_period, weights, day,
                   close, dividend_per_share, broker, ledger, portfolio_tracker,
                   rebalance_day, loopvars, last, cb_call>>

NextOptimize == OptimizeParams \/ OptimizeStep

SpecOptimize == InitOptimize /\ [][NextOptimize]_vars

(***************************************************************************)
(* Properties of get_cost_basis.                                           *)
(***************************************************************************)
same_direction(q, n) == (RPos(q) /\ RPos(n)) \/ (RNegative(q) /\ RNegative(n))
opposite_direction(q, n) == (RPos(q) /\ RNegative(n)) \/ (RNegative(q) /\ RPos(n))

volume_weighted_average(cb, q, n, p) ==
    RDiv(RAdd(RMul(cb, RAbs(q)), RMul(p, RAbs(n))), RAdd(RAbs(q), RAbs(n)))

\* C1: for a nonzero order n that has the sign of a nonzero position q, or
\* that meets a flat position (q == 0), get_cost_basis returns
\* (cb*|q| + p*|n|) / (|q| + |n|); from flat that is the order price p,
\* whatever cost basis cb an earlier position left behind.
C1_VolumeWeightedAverage ==
    (cb_call.called /\ ~RIsZero(cb_call.n)
       /\ (RIsZero(cb_call.q) \/ same_direction(cb_call.q, cb_call.n)))
    => /\ cb_call.out = volume_weighted_average(cb_call.cb, cb_call.q, cb_call.n, cb_call.p)
       /\ RIsZero(cb_call.q) => cb_call.out = cb_call.p

\* a short position is added to at a price other than its cost basis
C1_Witness ==
    /\ cb_call.called
    /\ RNegative(cb_call.q) /\ RNegative(cb_call.n)
    /\ cb_call.cb # cb_call.p
    /\ cb_call.out # cb_call.cb /\ cb_call.out # cb_call.p

\* C2: an order against a position q # 0 of size 0 < d <= |q| (a partial
\* close, the full close d == |q| included) leaves the cost basis as it was,
\* at every order price.
C2_PartialCloseKeepsBasis ==
    (cb_call.called /\ opposite_direction(cb_call.q, cb_call.n)
       /\ RLe(RAbs(cb_call.n), RAbs(cb_call.q)))
    => cb_call.out = cb_call.cb

\* a long position is closed in full at a price other than its cost basis
C2_Witness ==
    /\ cb_call.called
    /\ RPos(cb_call.q) /\ cb_call.n = RNeg(cb_call.q)
    /\ cb_call.p # cb_call.cb
    /\ cb_call.out = cb_call.cb

\* C3: an order against a position q # 0 whose size exceeds |q| (a
\* reversal) sets the cost basis to the order price, whatever it was before.
C3_ReversalTakesPrice ==
    (cb_call.called /\ opposite_direction(cb_call.q, cb_call.n)
       /\ RLt(RAbs(cb_call.q), RAbs(cb_call.n)))
    => cb_call.out = cb_call.p

\* a short position is bought through to long at another price
C3_Witness ==
    /\ cb_call.called
    /\ RNegative(cb_call.q) /\ RPos(cb_call.n)
    /\ RLt(RAbs(cb_call.q), RAbs(cb_call.n))
    /\ cb_call.cb # cb_call.p
    /\ cb_call.out = cb_call.p

(***************************************************************************)
(* Properties of order submission.                                         *)
(***************************************************************************)
\* C4: every order submitted through _submit_order changes the realized P&L
\* of its instrument by (price - cb0) * min(|quantity|, |pos0|) when a long
\* position is sold, by (cb0 - price) * min(|quantity|, |pos0|) when a short
\* position is bought, and by zero when it adds in the same direction or
\* opens from flat; cb0 and pos0 are the cost basis and the position held
\* before the order.
C4_RealizedDelta ==
    last.called =>
        LET delta == RSub(realized_pnl[last.ticker], last.rp0)
            closed == RMin(RAbs(last.quantity), RAbs(last.pos0))
        IN  /\ (RPos(last.pos0) /\ RNegative(last.quantity))
                  => delta = RMul(RSub(last.price, last.cb0), closed)
            /\ (RNegative(last.pos0) /\ RPos(last.quantity))
                  => delta = RMul(RSub(last.cb0, last.price), closed)
            /\ (same_direction(last.pos0, last.quantity)
                  \/ (RIsZero(last.pos0) /\ ~RIsZero(last.quantity)))
                  => delta = Zero

\* a long position is sold through to short at a price above its cost basis:
\* the order computes a new cost basis, the P&L uses the old one
C4_Witness ==
    /\ last.called
    /\ RPos(last.pos0)
    /\ RLt(last.pos0, RNeg(last.quantity))
    /\ RLt(last.cb0, last.price)
    /\ last.cb1 # last.cb0
    /\ RPos(RSub(realized_pnl[last.ticker], last.rp0))

\* C5: an order delta of exactly zero performs no action: no buy or sell
\* call is made for it, and cost basis and realized P&L stay as they were.
C5_ZeroDeltaNoAction ==
    /\ \A i \in 1..Len(pending) : ~RIsZero(pending[i].size)
    /\ (last.called /\ RIsZero(last.quantity))
          => /\ cost_basis[last.ticker] = last.cb0
             /\ realized_pnl[last.ticker] = last.rp0

(***************************************************************************)
(* Properties of the ledger and of the snapshots.                          *)
(***************************************************************************)
marked_to_market(t) ==
    /\ position_value[t] = RMul(position_size[t], I(close[t]))
    /\ unrealized_pnl[t] = RMul(RSub(I(close[t]), cost_basis[t]), position_size[t])

\* C6 as stated: in every reachable state every instrument's stored state
\* has position_value == position_size * current_price and
\* unrealized_pnl == (current_price - cost_basis) * position_size.
C6_LedgerInvariant == \A t \in Range(tickers) : marked_to_market(t)

\* C6 as amended: the two equations hold in every state in which no order
\* has been submitted since the latest snapshot step.
C6_LedgerInvariantAfterSnapshot ==
    pending = <<>> => \A t \in Range(tickers) : marked_to_market(t)

\* after a snapshot, an open position stands at a price off its cost basis
C6_Witness ==
    /\ pending = <<>>
    /\ pc = "strategy"
    /\ \E t \in Range(tickers) :
         /\ ~RIsZero(position_size[t])
         /\ ~RIsZero(cost_basis[t])
         /\ ~RIsZero(unrealized_pnl[t])

\* C7: in every strategy the target share count of an instrument is
\* floor(target_weight * portfolio_value / price), so every quantity passed
\* to _submit_order is an integer, for negative target weights too.
C7_IntegerTargets ==
    last.called =>
        /\ IsInt(last.quantity)
        /\ RAdd(last.pos0, last.quantity)
             = RFloor(RDiv(RMul(last.target_weight, last.value), last.price))

\* C8: after k simulated days the snapshot sequence holds exactly k records,
\* one per day in the order of the days, and a record is never changed or
\* removed once appended.
C8_OneSnapshotPerDay ==
    /\ [](/\ Len(portfolio_tracker) = day
          /\ \A i \in 1..Len(portfolio_tracker) : portfolio_tracker[i].date = i - 1)
    /\ [][/\ Len(portfolio_tracker') >= Len(portfolio_tracker)
          /\ \A i \in 1..Len(portfolio_tracker) :
                portfolio_tracker'[i] = portfolio_tracker[i]]_vars

\* three days are recorded and orders have moved the ledger away from what
\* the first two records hold
C8_Witness ==
    /\ Len(portfolio_tracker) = 3
    /\ last.called
    /\ portfolio_tracker[1].cost_basis # cost_basis
    /\ portfolio_tracker[2].cost_basis # cost_basis
    /\ portfolio_tracker[2].realized_pnl # realized_pnl

(***************************************************************************)
(* Properties of the allocators.                                           *)
(***************************************************************************)
positive_weights == DOMAIN weights # {} /\ \A k \in DOMAIN weights : RPos(weights[k])

\* C9: at every rebalance of a multi-asset strategy the normalised weights
\* of the strategy's instruments sum to 1, given positive raw weights: the
\* configured weights of the crossover allocators, normalised in place at
\* every rebalance, and the P&L-derived weights of the adaptive allocator.
C9_WeightsSumToOne ==
    /\ (strategy \in {"MultiAssetMovingAverageCrossover", "MAMAC"}
          /\ pc \in {"rebalance", "cash"} /\ positive_weights)
         => RSumSet(weights, DOMAIN weights \cap Range(tickers)) = One
    /\ (strategy = "AdvancedTrendFollowing" /\ pc = "rebalance")
         => RSumSeq(atr_weights, tickers) = One

\* a later rebalance of unequal raw weights, normalised in place before
C9_Witness ==
    /\ strategy = "MultiAssetMovingAverageCrossover"
    /\ pc = "rebalance"
    /\ day >= 2
    /\ weights["A"] = R(1, 4) /\ weights["B"] = R(3, 4)

\* next has just run a whole MAMAC rebalance with the cash ticker
rebalanced_with_cash ==
    /\ strategy = "MAMAC"
    /\ SHV \in Range(tickers)
    /\ pc = "idle" /\ day >= 1 /\ rebalance_day = 1

\* C10: in MAMAC with the cash ticker present, the target values of all
\* instruments of a rebalance, the cash ticker's included, sum to the
\* portfolio value read at the start of that rebalance, whatever the
\* crossover signals are.
C10_TargetsSumToValue ==
    rebalanced_with_cash =>
        /\ DOMAIN target_values = Range(tickers) \ {SHV}
        /\ RAdd(RSumSet(target_values, DOMAIN target_values), target_value) = portfolio_value
        /\ portfolio_value = portfolio_tracker[Len(portfolio_tracker)].portfolio_value

\* a second rebalance in which one signal is off and the cash ticker takes
\* that instrument's share
C10_Witness ==
    /\ rebalanced_with_cash
    /\ day >= 2
    /\ RIsZero(target_values["A"])
    /\ RPos(target_values["B"])
    /\ RPos(target_value)
    /\ RLt(target_value, portfolio_value)

(***************************************************************************)
(* Properties of single strategies.                                        *)
(***************************************************************************)
\* C11: under buy-and-hold on one instrument of the ledger, with fills at
\* the reference price and non-negative starting cash, no sell order is ever
\* submitted on any day of any positive price path, realized P&L stays zero throughout
\* (in the ledger and in every snapshot), cash never turns negative, and the
\* portfolio value recorded for a day equals the shares held times that
\* day's price plus the residual cash.
C11_BuyHoldNeverSells ==
    (strategy = "BuyHold" /\ tickers = datas) =>
        /\ \A i \in 1..Len(pending) : pending[i].side = "buy"
        /\ last.called => RPos(last.quantity)
        /\ realized_pnl[data0] = Zero
        /\ \A i \in 1..Len(portfolio_tracker) :
              portfolio_tracker[i].realized_pnl[data0] = Zero
        /\ ~RNegative(cash)
        /\ pc = "strategy" =>
              portfolio_tracker[Len(portfolio_tracker)].portfolio_value
                  = RAdd(RMul(position_size[data0], I(close[data0])), cash)

\* shares bought on the first day stand at a gain on the third, and the
\* dividend paid on them is used to buy more
C11_Witness ==
    /\ strategy = "BuyHold" /\ tickers = datas
    /\ day = 3
    /\ pc = "idle"
    /\ portfolio_tracker[1].position_size[data0] = Zero
    /\ RPos(portfolio_tracker[2].position_size[data0])
    /\ RPos(portfolio_tracker[3].unrealized_pnl[data0])
    /\ RPos(portfolio_tracker[3].dividends)
    /\ last.called /\ last.date = 2 /\ RPos(last.pos0)

\* C12: referencing an instrument that is not registered in the ledger
\* aborts the run before simulation starts: no order for such an instrument
\* reaches the broker, and a run that ends with that error has simulated no
\* day, recorded no snapshot and changed no ledger entry.
C12_UnregisteredAbortsBeforeStart ==
    /\ \A i \in 1..Len(pending) : pending[i].ticker \in Range(tickers)
    /\ (pc = "error" /\ Range(datas) \ Range(tickers) # {})
          => /\ day = 0
             /\ portfolio_tracker = <<>>
             /\ \A t \in Range(tickers) : cost_basis[t] = Zero /\ realized_pnl[t] = Zero

(***************************************************************************)
(* Properties of the metrics.                                              *)
(***************************************************************************)
nonnegative(x) == ~IsNaN(x) /\ x[1] >= 0

drawdown_in_range(t) ==
    /\ Len(t.drawdown) = Len(t.portfolio_value)
    /\ \A i \in 1..Len(t.drawdown) :
          /\ nonnegative(t.drawdown[i])
          /\ (\A j \in 1..i : RLe(t.portfolio_value[j], t.portfolio_value[i]))
                => t.drawdown[i] = Zero

max_is_maximum(t) ==
    /\ \E i \in 1..Len(t.drawdown) : t.metrics.max_drawdown = t.drawdown[i]
    /\ \A i \in 1..Len(t.drawdown) : RLe(t.drawdown[i], t.metrics.max_drawdown)

\* C13 as stated: for every recorded portfolio-value series every element
\* of the drawdown series is >= 0, and is 0 on every day whose value equals
\* the running maximum; max_drawdown is the maximum of the series.
C13_DrawdownNonNegative ==
    tester.has_tracker =>
        /\ drawdown_in_range(tester)
        /\ pc = "tested" => max_is_maximum(tester)

\* C13 as amended: the same for every series of positive values.
C13_DrawdownOfPositiveValues ==
    (tester.has_tracker /\ \A i \in 1..Len(tester.portfolio_value) :
                               RPos(tester.portfolio_value[i]))
    => /\ drawdown_in_range(tester)
       /\ DOMAIN tester.metrics # {}
       /\ max_is_maximum(tester)

\* the value falls from a maximum, recovers part of the fall, and the
\* largest drawdown is the one of the day in between
C13_Witness ==
    /\ pc = "tested"
    /\ tester.portfolio_value = <<I(3), I(1), I(2)>>
    /\ tester.drawdown = <<Zero, R(2, 3), R(1, 3)>>
    /\ tester.metrics.max_drawdown = R(2, 3)

\* the metrics of a run that recorded these portfolio values
metrics_of(values) == calculate_metrics(track(NewTester, values)).metrics

\* C14: every combination optimize_params has run has exactly one checkpoint
\* record, written when the combination finishes and before the next one
\* starts; the record holds the combination's parameters merged with the
\* metrics of that combination's own run, whatever other combinations or an
\* earlier backtest gave; records of completed combinations are neither
\* lost nor overwritten.
C14_OneCheckpointPerCombination ==
    /\ Cardinality(DOMAIN tester.files) = Len(tester.ran)
    /\ \A i \in 1..Len(tester.ran) :
          \E f \in DOMAIN tester.files :
             tester.files[f] = merge(tester.ran[i].params, metrics_of(tester.ran[i].results))

(***************************************************************************)
(* Properties of the order of the steps of a day.                          *)
(***************************************************************************)
ledger_holds_last_order ==
    /\ position_size[last.ticker] = RAdd(last.pos0, last.quantity)
    /\ cost_basis[last.ticker]
         = get_cost_basis(last.cb0, last.pos0, last.quantity, last.price)

\* C15 as stated: after an order for an instrument is applied, the stored
\* position size of the instrument is the pre-order size plus the signed
\* quantity of the order, and its stored cost basis is what get_cost_basis
\* gives for the pre-order size and the order.
C15_OrderUpdatesLedger == last.called => ledger_holds_last_order

\* C15 as amended: the cost basis is stored by the call itself, the position
\* size by the next snapshot step, so both hold once that step has run;
\* the pre-order size is the one the snapshot of the order's day stored.
C15_OrderInLedgerAfterSnapshot ==
    /\ last.called => cost_basis[last.ticker]
                        = get_cost_basis(last.cb0, last.pos0, last.quantity, last.price)
    /\ (last.called /\ pending = <<>>)
          => /\ portfolio_tracker[last.date + 1].position_size[last.ticker] = last.pos0
             /\ ledger_holds_last_order

\* a long position was added to at another price and the next snapshot has
\* stored the new size
C15_Witness ==
    /\ last.called
    /\ pending = <<>>
    /\ RPos(last.pos0)
    /\ RPos(last.quantity)
    /\ position_size[last.ticker] # last.pos0
    /\ cost_basis[last.ticker] # last.cb0

\* the snapshot of the day of the latest order
snapshot_of_last == portfolio_tracker[last.date + 1]

\* C16 as stated: the snapshot of a day is taken after every order of that
\* day has been applied to the ledger, so its cost basis and realized P&L
\* include that day's orders.
C16_SnapshotAfterOrders ==
    last.called =>
        /\ snapshot_of_last.cost_basis[last.ticker] = last.cb1
        /\ snapshot_of_last.realized_pnl[last.ticker] = realized_pnl[last.ticker]

\* C16 as amended: the snapshot of a day is taken before the orders of that
\* day are submitted: it holds the cost basis and the realized P&L the
\* orders of the earlier days left, and the orders of the day show in the
\* snapshot of the next day.
C16_SnapshotBeforeOrders ==
    /\ pc = "strategy" =>
          /\ portfolio_tracker[Len(portfolio_tracker)].cost_basis = cost_basis
          /\ portfolio_tracker[Len(portfolio_tracker)].realized_pnl = realized_pnl
    /\ last.called =>
          /\ snapshot_of_last.date = last.date
          /\ snapshot_of_last.cost_basis[last.ticker] = last.cb0
          /\ snapshot_of_last.realized_pnl[last.ticker] = last.rp0
          /\ Len(portfolio_tracker) > last.date + 1 =>
                /\ portfolio_tracker[last.date + 2].cost_basis[last.ticker] = last.cb1
                /\ portfolio_tracker[last.date + 2].realized_pnl[last.ticker]
                     = realized_pnl[last.ticker]

\* an order of the second day closed a position at a gain and changed the
\* cost basis of its instrument; the snapshot of the third day shows both,
\* the one of the second day neither
C16_Witness ==
    /\ last.called
    /\ last.date = 1
    /\ Len(portfolio_tracker) = 3
    /\ realized_pnl[last.ticker] # last.rp0
    /\ portfolio_tracker[2].realized_pnl[last.ticker] = last.rp0
    /\ portfolio_tracker[3].realized_pnl[last.ticker] # last.rp0

\* the strategies with a rebalance period
periodic ==
    strategy \in {"StaticAllocation", "AdvancedTrendFollowing", "MovingAverageCrossover",
                  "MultiAssetMovingAverageCrossover", "MAMAC"}

\* the day whose snapshot was taken last has a zero-based index that is a
\* multiple of the period
decision_day == (day - 1) % rebalance_period = 0

\* next goes on to compute targets and to submit orders
decides == pc' \in {"rebalance", "cash", "error"} \/ last' # last

\* C17: in every strategy with a rebalance period N >= 1, targets are
\* computed and orders submitted on exactly the days whose zero-based index
\* d has d % N == 0, with a counter that only grows as with one that is
\* reset at every rebalance; on the other days no order is submitted and
\* cost basis and realized P&L stay as they are.
C17_DecisionDays ==
    /\ []((periodic /\ last.called) => last.date % rebalance_period = 0)
    /\ [][(periodic /\ pc = "strategy")
            => IF decision_day
               THEN decides
               ELSE /\ pc' = "idle"
                    /\ UNCHANGED <<pending, cost_basis, realized_pnl, last>>]_vars

\* a strategy that resets its counter skipped the second day and has
\* rebalanced on the third
C17_Witness ==
    /\ strategy = "MultiAssetMovingAverageCrossover"
    /\ rebalance_period = 2
    /\ pc = "idle"
    /\ day = 3
    /\ rebalance_day = 1
    /\ last.called /\ last.date = 2
    /\ portfolio_tracker[3].cost_basis = portfolio_tracker[2].cost_basis
    /\ cost_basis # portfolio_tracker[3].cost_basis

\* C18: no weight normalisation divides by zero: in every multi-asset
\* rebalance a total raw weight of zero (all weights zero, or no weights
\* configured) is special-cased, and the rebalance completes without
\* raising an error.
C18_ZeroTotalWeightGuarded ==
    /\ err # "ZeroDivisionError"
    /\ (Len(datas) > 1 /\ RIsZero(RSumSet(weights, DOMAIN weights))) => err = None

\* the dividend cash of one instrument on the day of the latest bar
asset_dividends(t) == RMul(I(dividend_per_share[t]), position[t])

\* C19: on every simulated day the snapshot step adds to the broker's cash,
\* once for every instrument of the ledger, the day's dividend per share
\* times the position the instrument has at that moment; the dividends field
\* of the snapshot is the sum of these amounts, and the portfolio value of
\* the snapshot is read when all of them are in the cash.  The cash before
\* the step is the one left by the execution of the orders of the day before.
C19_DividendsIntoCash ==
    /\ [](pc = "strategy" =>
            LET state == portfolio_tracker[Len(portfolio_tracker)]
            IN  /\ state.dividends
                     = RSumSeq([t \in Range(tickers) |-> asset_dividends(t)], tickers)
                /\ state.portfolio_value = getvalue(cash, position, close, datas))
    /\ [][pc' = "strategy" =>
            cash' = RAdd(fill_cash(cash, pending),
                         RSumSeq([t \in Range(tickers) |->
                                     RMul(I(dividend_per_share'[t]), position'[t])],
                                 tickers))]_vars

\* two instruments held in different sizes pay a dividend on the same day
C19_Witness ==
    /\ pc = "strategy"
    /\ Len(tickers) >= 2
    /\ RPos(position["A"]) /\ RPos(position["B"])
    /\ position["A"] # position["B"]
    /\ dividend_per_share["A"] = 1 /\ dividend_per_share["B"] = 1
    /\ portfolio_tracker[Len(portfolio_tracker)].dividends
         = RAdd(position["A"], position["B"])

(***************************************************************************)
(* Properties of sequences of orders.                                      *)
(***************************************************************************)
\* both orders add to the position they meet: they have one sign, and the
\* starting position has it too or is flat
two_adds ==
    /\ same_direction(cb_call.n, cb_call.n2)
    /\ RIsZero(cb_call.q) \/ same_direction(cb_call.q, cb_call.n)

\* C20: for two same-direction fills (n at p, n2 at p2) applied one after
\* the other to one starting position (q at cb), the cost basis that
\* results is the same whichever fill comes first, and is the
\* volume-weighted average of the starting position and both fills.
C20_FillOrderIndependent ==
    (cb_call.called /\ "n2" \in DOMAIN cb_call /\ two_adds)
    => /\ cb_call.out = cb_call.out_swapped
       /\ cb_call.out
            = RDiv(RAdd(RAdd(RMul(cb_call.cb, RAbs(cb_call.q)),
                             RMul(cb_call.p, RAbs(cb_call.n))),
                        RMul(cb_call.p2, RAbs(cb_call.n2))),
                   RAdd(RAdd(RAbs(cb_call.q), RAbs(cb_call.n)), RAbs(cb_call.n2)))

\* a short position is added to twice, in different sizes at different
\* prices off its cost basis
C20_Witness ==
    /\ cb_call.called /\ "n2" \in DOMAIN cb_call
    /\ RNegative(cb_call.q) /\ RNegative(cb_call.n) /\ RNegative(cb_call.n2)
    /\ cb_call.n # cb_call.n2
    /\ cb_call.p # cb_call.p2 /\ cb_call.p # cb_call.cb /\ cb_call.p2 # cb_call.cb
    /\ cb_call.out = cb_call.out_swapped
    /\ cb_call.out \notin {cb_call.cb, cb_call.p, cb_call.p2}

\* the net cash flow of the orders of a ticker so far
flow_of(t) == IF t \in DOMAIN last.flow THEN last.flow[t] ELSE Zero

RECURSIVE ordered(_, _)
\* the signed quantity of the orders of a ticker that wait for execution
ordered(orders, t) ==
    IF orders = <<>> THEN Zero
    ELSE RAdd(IF Head(orders).ticker = t THEN signed(Head(orders)) ELSE Zero,
              ordered(Tail(orders), t))

RECURSIVE dividends_paid(_)
dividends_paid(tracker) ==
    IF tracker = <<>> THEN Zero
    ELSE RAdd(Head(tracker).dividends, dividends_paid(Tail(tracker)))

\* C21: for every sequence of orders of an instrument, each filled in full
\* at its reference price (adds, partial and full closes, reversals,
\* re-opens), realized_pnl - cost_basis * position equals the net cash flow
\* of the orders, the sum of -quantity * price: with the position the orders
\* give in every state, with the stored position_size of the ledger once they
\* are executed; the flows of all instruments together are what the cash of
\* the broker has moved by, dividends apart.  With a flat position realized
\* P&L is the sale proceeds minus the purchase cost.
C21_LedgerMatchesCashFlow ==
    /\ \A t \in Range(tickers) :
          /\ RSub(realized_pnl[t],
                  RMul(cost_basis[t], RAdd(position[t], ordered(pending, t))))
               = flow_of(t)
          /\ pending = <<>> =>
                /\ RSub(realized_pnl[t], RMul(cost_basis[t], position_size[t])) = flow_of(t)
                /\ RIsZero(position_size[t]) => realized_pnl[t] = flow_of(t)
    /\ (pending = <<>> /\ tickers = datas) =>
          RSumSeq([t \in Range(tickers) |-> flow_of(t)], tickers)
             = RSub(RSub(cash, I(StartCash)), dividends_paid(portfolio_tracker))

\* a position bought at one price and sold in full at another is flat with
\* a realized gain, and the instrument is bought again
C21_Witness ==
    /\ pending # <<>>
    /\ last.called
    /\ RIsZero(last.pos0) /\ RPos(last.quantity)
    /\ RPos(last.rp0)
    /\ portfolio_tracker[Len(portfolio_tracker)].position_size[last.ticker] = Zero
    /\ last.flow[last.ticker] = RSub(last.rp0, RMul(last.quantity, last.price))

\* the instruments of a static allocation that have no weight or weight 0
unweighted ==
    {t \in Range(tickers) : t \notin DOMAIN weights \/ weights[t] = Zero}

RECURSIVE orders_for(_, _)
\* the orders of a sequence that are for the instruments T
orders_for(orders, T) ==
    IF orders = <<>> THEN <<>>
    ELSE (IF Head(orders).ticker \in T THEN <<Head(orders)>> ELSE <<>>)
            \o orders_for(Tail(orders), T)

\* the round of the rebalance loop that is about to run is for ticker t
rebalancing(t) ==
    strategy = "StaticAllocation" /\ pc = "rebalance" /\ todo # <<>> /\ Head(todo) = t

\* C22: a round of a static-allocation rebalance for an instrument whose
\* weight is zero or that has no weight submits no order and leaves size,
\* cost basis and realized P&L of the instrument as they are, so no order is
\* ever made for it and what it holds stays; weight keys that name no
\* instrument of the strategy are ignored, and no error is raised.
C22_UnweightedUntouched ==
    [][/\ \A t \in unweighted : rebalancing(t) =>
             /\ pending' = pending
             /\ last' = last
             /\ position'[t] = position[t]
             /\ position_size'[t] = position_size[t]
             /\ cost_basis'[t] = cost_basis[t]
             /\ realized_pnl'[t] = realized_pnl[t]
       /\ strategy = "StaticAllocation" =>
             /\ orders_for(pending', unweighted) = <<>>
             /\ \A t \in unweighted :
                   position_size'[t] = position_size[t] /\ cost_basis'[t] = cost_basis[t]
                      /\ realized_pnl'[t] = realized_pnl[t]
             /\ err' = None
             /\ (pc = "rebalance" /\ Head(todo) \notin unweighted) =>
                   Len(pending') = Len(pending) + 1]_vars

\* after a second rebalance that ordered A, the instrument B, which has no
\* weight beside a weight for a key that names no instrument, has no order
C22_Witness ==
    /\ strategy = "StaticAllocation"
    /\ DOMAIN weights \ Range(tickers) # {}
    /\ "B" \in unweighted
    /\ pc = "idle" /\ day >= 2 /\ Len(portfolio_tracker) = day
    /\ last.called /\ last.ticker = "A" /\ last.date = day - 1
    /\ portfolio_tracker[day].position_size["A"] # Zero
    /\ portfolio_tracker[day].position_size["B"] = Zero

====
